---- MODULE Spec2Model ----
(***************************************************************************)
(* A model of libpsample (src/psample.c): the session handle (open, close, *)
(* bind_group), the kernel socket filter that bind_group installs, the     *)
(* attribute decoder (attr_cb under mnl_attr_parse) and the dispatch loop  *)
(* (psample_dispatch, psample_event_handler).                              *)
(*                                                                         *)
(* The specifications share the variables:                                 *)
(*   Spec          the life of one handle: open, bind_group, messages      *)
(*                 arriving through the filter, dispatch with callbacks    *)
(*                 that return 0, close;                                   *)
(*   SpecDispatch  dispatch in full: any callbacks registered, any return  *)
(*                 values, blocking or not, receive failures;              *)
(*   SpecWire      one message on the wire: the program bind_group         *)
(*                 installed and the attribute decoder applied to it;      *)
(*   SpecGroups    the enumeration of the sampling groups;                 *)
(*   SpecAccess    the accessors on one dispatched sample;                 *)
(*   SpecCapture   the capture bridge, and bind_group when malloc fails.   *)
(***************************************************************************)
EXTENDS Integers, Sequences, FiniteSets, TLC

VARIABLES
    littleEndian,   \* the build's host byte order
    handle,         \* the caller's struct psample_handle *, NULL or its fields
    mem,            \* live heap blocks, by kind
    sample_sock,    \* the event connection's socket, as the kernel holds it
    control_sock,   \* the control connection's socket
    queue,          \* the event socket's receive queue (messages past the filter)
    last,           \* the last call (or arrival) and what it returned
    wire,           \* SpecWire: one message, the filter's verdict, the decode
    bufsize,        \* the host's MNL_SOCKET_BUFFER_SIZE
    pcap            \* handle->psample_pcap and what libpcap holds for it

vars == <<littleEndian, handle, mem, sample_sock, control_sock, queue, last, wire,
          bufsize, pcap>>

(***************************************************************************)
(* Bounds of the model.                                                    *)
(***************************************************************************)
MaxAttrs == 2       \* attributes per message in SpecWire
MaxQueue == 2       \* messages held by the event socket's receive queue
MaxDump == 2        \* group records in the reply to one dump request
MaxSubset == 3      \* attributes carried by a sample in SpecAccess

(***************************************************************************)
(* Program constants.                                                      *)
(***************************************************************************)
PSAMPLE_ATTR_IIFINDEX == 0
PSAMPLE_ATTR_OIFINDEX == 1
PSAMPLE_ATTR_ORIGSIZE == 2
PSAMPLE_ATTR_SAMPLE_GROUP == 3
PSAMPLE_ATTR_GROUP_SEQ == 4
PSAMPLE_ATTR_SAMPLE_RATE == 5
PSAMPLE_ATTR_DATA == 6
PSAMPLE_ATTR_GROUP_REFCOUNT == 7
PSAMPLE_ATTR_OUT_TC == 10
PSAMPLE_ATTR_OUT_TC_OCC == 11
PSAMPLE_ATTR_LATENCY == 12
PSAMPLE_ATTR_TIMESTAMP == 13
PSAMPLE_ATTR_PROTO == 14
PSAMPLE_ATTR_MAX == 14
PSAMPLE_CMD_SAMPLE == 0
PSAMPLE_CMD_NEW_GROUP == 2
MNL_CB_ERROR == -1
MNL_CB_STOP == 0
MNL_CB_OK == 1
NLMSG_HDRLEN == 16      \* sizeof(struct nlmsghdr)
GENL_HDRLEN == 4        \* sizeof(struct genlmsghdr)
NLA_HDRLEN == 4         \* sizeof(struct nlattr)
FILTER_GROUP_COMMAND == 6
TEMPLATE_GROUP_K == 939524096   \* 0x38000000
BPF_DROP == 0
BPF_PASS == -1                  \* (u_int) -1, as a signed 32-bit word
EPERM == 1
ENOENT == 2
EWOULDBLOCK == 11
ENOMEM == 12
EINVAL == 22
ENOBUFS == 105

\* A pointer is the set of what it points to: empty for a null pointer.
NULL == {}
Ptr(x) == {x}
Deref(p) == CHOOSE x \in p : TRUE

(***************************************************************************)
(* Bytes and byte order.  A 32-bit word is held as the signed 32-bit       *)
(* integer with the same bits, so that every word fits the checker's       *)
(* integers: 0xffffffff is -1.                                             *)
(***************************************************************************)
U16Bytes(v, le) ==
    IF le THEN <<v % 256, (v \div 256) % 256>>
          ELSE <<(v \div 256) % 256, v % 256>>

U32Bytes(v, le) ==
    LET b0 == v % 256
        b1 == (v \div 256) % 256
        b2 == (v \div 65536) % 256
        b3 == (v \div 16777216) % 256
    IN  IF le THEN <<b0, b1, b2, b3>> ELSE <<b3, b2, b1, b0>>

\* A 16-bit field of the packet at byte offset off, in host byte order.
HostU16(pkt, off, le) ==
    IF le THEN pkt[off + 1] + 256 * pkt[off + 2]
          ELSE pkt[off + 2] + 256 * pkt[off + 1]

\* BPF_LD + BPF_W: the 32-bit word at byte offset off, in network byte order.
LoadWordBE(pkt, off) ==
    LET top == IF pkt[off + 1] >= 128 THEN pkt[off + 1] - 256 ELSE pkt[off + 1]
    IN  16777216 * top + 65536 * pkt[off + 2] + 256 * pkt[off + 3] + pkt[off + 4]

\* ntohl on a 32-bit value.
ntohl(v, le) ==
    IF le THEN LoadWordBE(U32Bytes(v, TRUE), 0) ELSE v

NLA_ALIGN(n) == ((n + 3) \div 4) * 4

Zeros(n) == [i \in 1..n |-> 0]

(***************************************************************************)
(* A message: the generic netlink command and the attributes, each with    *)
(* its id, its payload length (its wire type) and its value.               *)
(***************************************************************************)
\* The payload of an attribute: its value in host byte order, in len bytes
\* (a 64-bit value here is below 2^31).
AttrPayload(a, le) ==
    IF a.len = 2 THEN U16Bytes(a.val, le)
    ELSE IF a.len = 8
        THEN IF le THEN U32Bytes(a.val, le) \o Zeros(4)
                   ELSE Zeros(4) \o U32Bytes(a.val, le)
    ELSE U32Bytes(a.val, le)

AttrBytes(a, le) ==
    U16Bytes(NLA_HDRLEN + a.len, le) \o U16Bytes(a.id, le) \o AttrPayload(a, le)
        \o Zeros(NLA_ALIGN(a.len) - a.len)

RECURSIVE AttrsBytes(_, _)
AttrsBytes(attrs, le) ==
    IF attrs = <<>> THEN <<>>
    ELSE AttrBytes(Head(attrs), le) \o AttrsBytes(Tail(attrs), le)

\* The datagram as the socket filter sees it: nlmsghdr, genlmsghdr, attributes.
MsgBytes(m, le) ==
    Zeros(NLMSG_HDRLEN) \o <<m.cmd, 1, 0, 0>> \o AttrsBytes(m.attrs, le)

(***************************************************************************)
(* The socket filter: the template, the program bind_group builds from it, *)
(* and the kernel's evaluation of a program on a datagram.                 *)
(***************************************************************************)
Ins(code, k, jt, jf) == [code |-> code, k |-> k, jt |-> jt, jf |-> jf]

psample_group_filter ==
    << Ins("LD_IMM", NLMSG_HDRLEN + GENL_HDRLEN, 0, 0),
       Ins("LDX_IMM", PSAMPLE_ATTR_SAMPLE_GROUP, 0, 0),
       Ins("LD_ABS_NLATTR", 0, 0, 0),
       Ins("JEQ_K", 0, 4, 0),
       Ins("TAX", 0, 0, 0),
       Ins("LD_W_IND", 4, 0, 0),
       Ins("JEQ_K", TEMPLATE_GROUP_K, 1, 0),
       Ins("RET_K", BPF_DROP, 0, 0),
       Ins("RET_K", BPF_PASS, 0, 0) >>

\* A plausible slip: the group number patched in without the byte swap.
PatchedFilter_host_order(group, le) ==
    [psample_group_filter EXCEPT ![FILTER_GROUP_COMMAND + 1].k = group]

\* The memcpy of the template and the patch of instruction 6 (C arrays count
\* from 0, sequences from 1).
PatchedFilter(group, le) ==
    [psample_group_filter EXCEPT ![FILTER_GROUP_COMMAND + 1].k = ntohl(group, le)]

\* The kernel's nla_find from byte offset off: the offset of the first
\* attribute of the given type, 0 when there is none.
RECURSIVE nla_find(_, _, _, _)
nla_find(pkt, off, type, le) ==
    LET rem == Len(pkt) - off
        nla_len == HostU16(pkt, off, le)
    IN  IF rem < NLA_HDRLEN THEN 0
        ELSE IF nla_len < NLA_HDRLEN \/ nla_len > rem THEN 0
        ELSE IF HostU16(pkt, off + 2, le) = type THEN off
        ELSE nla_find(pkt, off + NLA_ALIGN(nla_len), type, le)

\* SKF_AD_NLATTR: A := offset of the attribute of type X at or after offset A.
bpf_skb_get_nlattr(pkt, a, x, le) ==
    IF Len(pkt) < NLA_HDRLEN \/ a > Len(pkt) - NLA_HDRLEN THEN 0
    ELSE nla_find(pkt, a, x, le)

\* The kernel running a filter program on a datagram: the RET value.
RECURSIVE BpfRun(_, _, _, _, _, _)
BpfRun(prog, pkt, pc, A, X, le) ==
    LET ins == prog[pc + 1] IN
    CASE ins.code = "LD_IMM"  -> BpfRun(prog, pkt, pc + 1, ins.k, X, le)
      [] ins.code = "LDX_IMM" -> BpfRun(prog, pkt, pc + 1, A, ins.k, le)
      [] ins.code = "LD_ABS_NLATTR" ->
            BpfRun(prog, pkt, pc + 1, bpf_skb_get_nlattr(pkt, A, X, le), X, le)
      [] ins.code = "JEQ_K" ->
            BpfRun(prog, pkt, pc + 1 + (IF A = ins.k THEN ins.jt ELSE ins.jf), A, X, le)
      [] ins.code = "TAX" -> BpfRun(prog, pkt, pc + 1, A, A, le)
      [] ins.code = "LD_W_IND" ->
            IF X + ins.k + 4 > Len(pkt) THEN BPF_DROP
            ELSE BpfRun(prog, pkt, pc + 1, LoadWordBE(pkt, X + ins.k), X, le)
      [] ins.code = "RET_K" -> ins.k

\* Whether the socket delivers message m with program prog attached.
FilterAccepts(prog, m, le) ==
    BpfRun(prog, MsgBytes(m, le), 0, 0, 0, le) # BPF_DROP

(***************************************************************************)
(* The attribute decoder: attr_cb, run by mnl_attr_parse on each attribute *)
(* in order.  A table slot holds the position of the attribute it points   *)
(* to, 0 for a null pointer.                                               *)
(***************************************************************************)
AttrIds == 0..PSAMPLE_ATTR_MAX

EmptyTb == [id \in AttrIds |-> 0]

mnl_attr_type_valid(attr, max) == IF attr.id > max THEN -1 ELSE 1

\* MNL_TYPE_U16 and MNL_TYPE_U32 demand the exact payload length.
mnl_attr_validate(attr, type) ==
    LET exp_len == IF type = "MNL_TYPE_U16" THEN 2 ELSE 4
    IN  IF attr.len # exp_len THEN -1 ELSE 0

\* A plausible slip: the slot written before the attribute is validated.
attr_cb_write_first(attr, pos, tb) ==
    LET type == attr.id
        tb2 == IF type \in AttrIds THEN [tb EXCEPT ![type] = pos] ELSE tb
    IN  IF mnl_attr_type_valid(attr, PSAMPLE_ATTR_MAX) < 0
            THEN [ret |-> MNL_CB_ERROR, tb |-> tb2]
        ELSE IF type \in {PSAMPLE_ATTR_IIFINDEX, PSAMPLE_ATTR_OIFINDEX}
                /\ mnl_attr_validate(attr, "MNL_TYPE_U16") < 0
            THEN [ret |-> MNL_CB_ERROR, tb |-> tb2]
        ELSE IF type \in {PSAMPLE_ATTR_SAMPLE_RATE, PSAMPLE_ATTR_ORIGSIZE,
                          PSAMPLE_ATTR_SAMPLE_GROUP, PSAMPLE_ATTR_GROUP_SEQ,
                          PSAMPLE_ATTR_GROUP_REFCOUNT}
                /\ mnl_attr_validate(attr, "MNL_TYPE_U32") < 0
            THEN [ret |-> MNL_CB_ERROR, tb |-> tb2]
        ELSE [ret |-> MNL_CB_OK, tb |-> tb2]

attr_cb(attr, pos, tb) ==
    LET type == attr.id IN
    IF mnl_attr_type_valid(attr, PSAMPLE_ATTR_MAX) < 0
        THEN [ret |-> MNL_CB_ERROR, tb |-> tb]
    ELSE IF type = PSAMPLE_ATTR_IIFINDEX /\ mnl_attr_validate(attr, "MNL_TYPE_U16") < 0
        THEN [ret |-> MNL_CB_ERROR, tb |-> tb]
    ELSE IF type = PSAMPLE_ATTR_OIFINDEX /\ mnl_attr_validate(attr, "MNL_TYPE_U16") < 0
        THEN [ret |-> MNL_CB_ERROR, tb |-> tb]
    ELSE IF type = PSAMPLE_ATTR_SAMPLE_RATE /\ mnl_attr_validate(attr, "MNL_TYPE_U32") < 0
        THEN [ret |-> MNL_CB_ERROR, tb |-> tb]
    ELSE IF type = PSAMPLE_ATTR_ORIGSIZE /\ mnl_attr_validate(attr, "MNL_TYPE_U32") < 0
        THEN [ret |-> MNL_CB_ERROR, tb |-> tb]
    ELSE IF type = PSAMPLE_ATTR_SAMPLE_GROUP /\ mnl_attr_validate(attr, "MNL_TYPE_U32") < 0
        THEN [ret |-> MNL_CB_ERROR, tb |-> tb]
    ELSE IF type = PSAMPLE_ATTR_GROUP_SEQ /\ mnl_attr_validate(attr, "MNL_TYPE_U32") < 0
        THEN [ret |-> MNL_CB_ERROR, tb |-> tb]
    ELSE IF type = PSAMPLE_ATTR_GROUP_REFCOUNT /\ mnl_attr_validate(attr, "MNL_TYPE_U32") < 0
        THEN [ret |-> MNL_CB_ERROR, tb |-> tb]
    ELSE [ret |-> MNL_CB_OK, tb |-> [tb EXCEPT ![type] = pos]]

\* mnl_attr_parse: the callback on each attribute in order, stopping at the
\* first that returns MNL_CB_STOP or less.
RECURSIVE mnl_attr_parse_from(_, _, _)
mnl_attr_parse_next(attrs, pos, r) ==
    IF r.ret <= MNL_CB_STOP THEN r
    ELSE mnl_attr_parse_from(attrs, pos + 1, r.tb)

mnl_attr_parse_from(attrs, pos, tb) ==
    IF pos > Len(attrs) THEN [ret |-> MNL_CB_OK, tb |-> tb]
    ELSE mnl_attr_parse_next(attrs, pos, attr_cb(attrs[pos], pos, tb))

mnl_attr_parse(attrs) == mnl_attr_parse_from(attrs, 1, EmptyTb)

(***************************************************************************)
(* The session handle: psample_open and psample_close.                     *)
(*                                                                         *)
(* A socket is "none" before it is opened, then "open", then "closed";     *)
(* closes counts the mnlg_socket_close calls on it.  The event socket      *)
(* carries the multicast groups joined, the attached filter program (NULL  *)
(* for none) and its O_NONBLOCK flag.  Closing a socket makes the kernel   *)
(* drop what is attached to it.                                            *)
(***************************************************************************)
NoSock == [state |-> "none", groups |-> {}, filter |-> NULL, nonblock |-> FALSE,
           closes |-> 0]

mnlg_socket_open_ok == [NoSock EXCEPT !.state = "open"]

mnlg_socket_group_add(sock, name) == [sock EXCEPT !.groups = @ \cup {name}]

mnlg_socket_close(sock) ==
    [sock EXCEPT !.state = "closed", !.groups = {}, !.filter = NULL,
                 !.closes = @ + 1]

OpenFailures == {"none", "calloc", "sample_open", "group_config", "group_sample",
                 "control_open"}

NewHandle == Ptr([filter |-> NULL])

\* A plausible slip: the last failure path forgets the event connection.
psample_open_leaks_socket(fail, m) ==
    IF fail = "calloc"
        THEN [ret |-> NULL, mem |-> m, sample |-> NoSock, control |-> NoSock]
    ELSE IF fail = "sample_open"
        THEN [ret |-> NULL, mem |-> m, sample |-> NoSock, control |-> NoSock]
    ELSE IF fail = "control_open"
        THEN [ret |-> NULL, mem |-> m,
              sample |-> mnlg_socket_group_add(
                            mnlg_socket_group_add(mnlg_socket_open_ok, "config"),
                            "packets"),
              control |-> NoSock]
    ELSE IF fail \in {"group_config", "group_sample"}
        THEN [ret |-> NULL, mem |-> m,
              sample |-> mnlg_socket_close(mnlg_socket_open_ok),
              control |-> NoSock]
    ELSE [ret |-> NewHandle, mem |-> [m EXCEPT !.handle = @ + 1],
          sample |-> mnlg_socket_group_add(
                        mnlg_socket_group_add(mnlg_socket_open_ok, "config"),
                        "packets"),
          control |-> mnlg_socket_open_ok]

\* psample_open, with the step that fails ("none": every step succeeds).
\* The result: the pointer returned, the heap, and the two sockets.
psample_open(fail, m) ==
    IF fail = "calloc"
        THEN [ret |-> NULL, mem |-> m, sample |-> NoSock, control |-> NoSock]
    ELSE LET m1 == [m EXCEPT !.handle = @ + 1]
             freed == [m1 EXCEPT !.handle = @ - 1]
         IN
    IF fail = "sample_open"
        THEN [ret |-> NULL, mem |-> freed, sample |-> NoSock, control |-> NoSock]
    ELSE LET s1 == mnlg_socket_open_ok IN
    IF fail = "group_config"
        THEN [ret |-> NULL, mem |-> freed, sample |-> mnlg_socket_close(s1),
              control |-> NoSock]
    ELSE LET s2 == mnlg_socket_group_add(s1, "config") IN
    IF fail = "group_sample"
        THEN [ret |-> NULL, mem |-> freed, sample |-> mnlg_socket_close(s2),
              control |-> NoSock]
    ELSE LET s3 == mnlg_socket_group_add(s2, "packets") IN
    IF fail = "control_open"
        THEN [ret |-> NULL, mem |-> freed, sample |-> mnlg_socket_close(s3),
              control |-> NoSock]
    ELSE [ret |-> NewHandle, mem |-> m1, sample |-> s3,
          control |-> mnlg_socket_open_ok]

\* A plausible slip: the filter buffer is not freed on close.
psample_close_leaks_filter(h, m, sample, control) ==
    IF h = NULL
        THEN [mem |-> m, sample |-> sample, control |-> control]
    ELSE [mem |-> [m EXCEPT !.handle = @ - 1],
          sample |-> mnlg_socket_close(sample),
          control |-> mnlg_socket_close(control)]

\* psample_close on handle h: the heap and the sockets afterwards.
psample_close(h, m, sample, control) ==
    IF h = NULL
        THEN [mem |-> m, sample |-> sample, control |-> control]
    ELSE LET m1 == IF Deref(h).filter # NULL THEN [m EXCEPT !.filter = @ - 1] ELSE m
         IN  [mem |-> [m1 EXCEPT !.handle = @ - 1],
              sample |-> mnlg_socket_close(sample),
              control |-> mnlg_socket_close(control)]

(***************************************************************************)
(* psample_bind_group.  The kernel's part: SO_DETACH_FILTER fails with     *)
(* ENOENT when no program is attached and may fail otherwise (EPERM, a     *)
(* locked filter); SO_ATTACH_FILTER may fail (ENOMEM) and, when it         *)
(* succeeds, the socket runs a copy of the program.  ops lists the calls   *)
(* made, in order.                                                         *)
(***************************************************************************)
\* A plausible slip: the old buffer is dropped without free().
psample_bind_group_no_free(h, group, sample, m, le, detach_fails, attach_fails) ==
    IF h = NULL
        THEN [ret |-> -EINVAL, handle |-> h, sample |-> sample, mem |-> m,
              ops |-> <<>>]
    ELSE
    LET held == Deref(h).filter # NULL
        detach_errno == IF sample.filter = NULL THEN ENOENT
                        ELSE IF detach_fails THEN EPERM ELSE 0
    IN
    IF held /\ detach_errno # 0
        THEN [ret |-> -detach_errno, handle |-> h, sample |-> sample, mem |-> m,
              ops |-> <<"detach">>]
    ELSE
    LET s1 == IF held THEN [sample EXCEPT !.filter = NULL] ELSE sample
        ops1 == IF held THEN <<"detach">> ELSE <<>>
        m2 == [m EXCEPT !.filter = @ + 1]
        h2 == Ptr([filter |-> Ptr(PatchedFilter(group, le))])
    IN
    IF attach_fails
        THEN [ret |-> -ENOMEM, handle |-> h2, sample |-> s1, mem |-> m2,
              ops |-> ops1 \o <<"malloc", "attach">>]
    ELSE [ret |-> 0, handle |-> h2, sample |-> [s1 EXCEPT !.filter = Deref(h2).filter],
          mem |-> m2, ops |-> ops1 \o <<"malloc", "attach">>]

\* A plausible slip: the result of SO_DETACH_FILTER is not looked at.
psample_bind_group_ignores_detach(h, group, sample, m, le, detach_fails, attach_fails) ==
    IF h = NULL
        THEN [ret |-> -EINVAL, handle |-> h, sample |-> sample, mem |-> m,
              ops |-> <<>>]
    ELSE
    LET held == Deref(h).filter # NULL
        detached == held /\ sample.filter # NULL /\ ~detach_fails
        s1 == IF detached THEN [sample EXCEPT !.filter = NULL] ELSE sample
        m1 == IF held THEN [m EXCEPT !.filter = @ - 1] ELSE m
        ops1 == IF held THEN <<"detach", "free">> ELSE <<>>
        m2 == [m1 EXCEPT !.filter = @ + 1]
        h2 == Ptr([filter |-> Ptr(PatchedFilter(group, le))])
    IN
    IF attach_fails
        THEN [ret |-> -ENOMEM, handle |-> h2, sample |-> s1, mem |-> m2,
              ops |-> ops1 \o <<"malloc", "attach">>]
    ELSE [ret |-> 0, handle |-> h2, sample |-> [s1 EXCEPT !.filter = Deref(h2).filter],
          mem |-> m2, ops |-> ops1 \o <<"malloc", "attach">>]

psample_bind_group(h, group, sample, m, le, detach_fails, attach_fails) ==
    IF h = NULL
        THEN [ret |-> -EINVAL, handle |-> h, sample |-> sample, mem |-> m,
              ops |-> <<>>]
    ELSE
    LET held == Deref(h).filter # NULL
        detach_errno == IF sample.filter = NULL THEN ENOENT
                        ELSE IF detach_fails THEN EPERM ELSE 0
    IN
    IF held /\ detach_errno # 0
        THEN [ret |-> -detach_errno, handle |-> h, sample |-> sample, mem |-> m,
              ops |-> <<"detach">>]
    ELSE
    LET s1 == IF held THEN [sample EXCEPT !.filter = NULL] ELSE sample
        m1 == IF held THEN [m EXCEPT !.filter = @ - 1] ELSE m
        ops1 == IF held THEN <<"detach", "free">> ELSE <<>>
        m2 == [m1 EXCEPT !.filter = @ + 1]
        h2 == Ptr([filter |-> Ptr(PatchedFilter(group, le))])
    IN
    IF attach_fails
        THEN [ret |-> -ENOMEM, handle |-> h2, sample |-> s1, mem |-> m2,
              ops |-> ops1 \o <<"malloc", "attach">>]
    ELSE [ret |-> 0, handle |-> h2, sample |-> [s1 EXCEPT !.filter = Deref(h2).filter],
          mem |-> m2, ops |-> ops1 \o <<"malloc", "attach">>]

(***************************************************************************)
(* psample_dispatch.  A callback is NULL or registered; a registered       *)
(* callback's return values are the caller's, drawn per call of dispatch   *)
(* as a script: the invocation numbered stop_at returns v, the others 0.   *)
(***************************************************************************)
CbReturn(n, stop_at, v) == IF n = stop_at THEN v ELSE 0

\* A plausible slip: the sample callback chosen without looking at the command.
Classify_ignores_cmd(cmd, msg_cb, config_cb) ==
    IF msg_cb # NULL THEN "msg"
    ELSE IF config_cb # NULL THEN "config"
    ELSE "none"

\* The branch psample_event_handler takes for a message with command cmd.
Classify(cmd, msg_cb, config_cb) ==
    IF cmd = PSAMPLE_CMD_SAMPLE /\ msg_cb # NULL THEN "msg"
    ELSE IF config_cb # NULL THEN "config"
    ELSE "none"

\* psample_event_handler on message m, the idx-th of this call of dispatch.
\* data is the struct psample_event_handler_data; cb_ret is what the callback
\* returns if one is invoked.  The result: the handler's return value, the
\* struct's cb_retval afterwards, and the invocations made (one or none).
event_handler_branch(m, idx, data, cb_ret, tb, branch) ==
    IF branch = "msg"
        THEN [ret |-> IF cb_ret # 0 THEN MNL_CB_STOP ELSE MNL_CB_OK,
              cb_retval |-> cb_ret,
              calls |-> << [cb |-> data.msg_cb, idx |-> idx,
                            data |-> data.msg_cb_data,
                            view |-> [tb |-> tb], ret |-> cb_ret] >>]
    ELSE IF branch = "config"
        THEN [ret |-> IF cb_ret # 0 THEN MNL_CB_STOP ELSE MNL_CB_OK,
              cb_retval |-> cb_ret,
              calls |-> << [cb |-> data.config_cb, idx |-> idx,
                            data |-> data.config_cb_data,
                            view |-> [cmd |-> m.cmd, tb |-> tb], ret |-> cb_ret] >>]
    ELSE [ret |-> MNL_CB_OK, cb_retval |-> data.cb_retval, calls |-> <<>>]

psample_event_handler(m, idx, data, cb_ret) ==
    event_handler_branch(m, idx, data, cb_ret,
                         mnl_attr_parse(m.attrs).tb,  \* its return value is not read
                         Classify(m.cmd, data.msg_cb, data.config_cb))

\* mnlg_socket_recv_run on the event socket with psample_event_handler: receive
\* a datagram, run the handler on its message, and go on while the handler
\* returns MNL_CB_OK.  q is the receive queue, i the next datagram.  The
\* receive fails with ENOBUFS before datagram err_at + 1 (err_at = -1: never),
\* and with EWOULDBLOCK on an empty queue of a non-blocking socket; on an empty
\* queue of a blocking socket the call does not return (blocked).
RECURSIVE mnlg_socket_recv_run(_, _, _, _, _, _, _, _)
\* After the handler returned r on datagram i: stop, or receive the next.
recv_run_next(q, i, data, calls, nonblock, err_at, stop_at, v, r) ==
    IF r.ret <= MNL_CB_STOP
        THEN [err |-> r.ret, errno |-> 0, consumed |-> i, calls |-> calls \o r.calls,
              cb_retval |-> r.cb_retval, blocked |-> FALSE]
    ELSE mnlg_socket_recv_run(q, i + 1, [data EXCEPT !.cb_retval = r.cb_retval],
                              calls \o r.calls, nonblock, err_at, stop_at, v)

mnlg_socket_recv_run(q, i, data, calls, nonblock, err_at, stop_at, v) ==
    IF err_at = i - 1
        THEN [err |-> -1, errno |-> ENOBUFS, consumed |-> i - 1, calls |-> calls,
              cb_retval |-> data.cb_retval, blocked |-> FALSE]
    ELSE IF i > Len(q)
        THEN [err |-> -1, errno |-> EWOULDBLOCK, consumed |-> i - 1, calls |-> calls,
              cb_retval |-> data.cb_retval, blocked |-> ~nonblock]
    ELSE recv_run_next(q, i, data, calls, nonblock, err_at, stop_at, v,
                       psample_event_handler(q[i], i, data,
                                             CbReturn(Len(calls) + 1, stop_at, v)))

\* fcntl(F_SETFL) may fail; psample_dispatch does not read the result.
psample_set_blocking(sample, block, fcntl_fails) ==
    IF fcntl_fails THEN sample ELSE [sample EXCEPT !.nonblock = ~block]

\* psample_dispatch.  garbage is the value the uninitialised cb_retval of the
\* local struct psample_event_handler_data happens to hold.
\* What psample_dispatch returns once mnlg_socket_recv_run returned r.
dispatch_return(r, s1, block) ==
    IF r.err < 0 /\ (r.errno # EWOULDBLOCK \/ block)
        THEN [ret |-> -r.errno, sample |-> s1, consumed |-> r.consumed,
              calls |-> r.calls, ended |-> "error", errno |-> r.errno,
              blocked |-> r.blocked]
    ELSE [ret |-> r.cb_retval, sample |-> s1, consumed |-> r.consumed,
          calls |-> r.calls,
          ended |-> IF r.err < 0 THEN "wouldblock" ELSE "stop",
          errno |-> r.errno, blocked |-> r.blocked]

dispatch_run(data, block, s1, q, err_at, stop_at, v) ==
    dispatch_return(
        mnlg_socket_recv_run(q, 1, data, <<>>, s1.nonblock, err_at, stop_at, v),
        s1, block)

psample_dispatch(h, msg_cb, msg_data, config_cb, config_data, block, sample, q, garbage, fcntl_fails, err_at, stop_at, v) ==
    IF h = NULL
        THEN [ret |-> -ENOMEM, sample |-> sample, consumed |-> 0, calls |-> <<>>,
              ended |-> "invalid", errno |-> 0, blocked |-> FALSE]
    ELSE dispatch_run([msg_cb |-> msg_cb, msg_cb_data |-> msg_data,
                       config_cb |-> config_cb, config_cb_data |-> config_data,
                       cb_retval |-> garbage],
                      block, psample_set_blocking(sample, block, fcntl_fails),
                      q, err_at, stop_at, v)

(***************************************************************************)
(* The accessors of a sample event view: psample_msg_<field>_exist and     *)
(* psample_msg_<field>, by the attribute id of the field.  A view points   *)
(* into the message, so an accessor reads the payload bytes of the         *)
(* attribute its slot points to.                                           *)
(***************************************************************************)
HostU32(bytes, off, le) ==
    IF le THEN bytes[off + 1] + 256 * bytes[off + 2] + 65536 * bytes[off + 3]
               + 16777216 * bytes[off + 4]
          ELSE bytes[off + 4] + 256 * bytes[off + 3] + 65536 * bytes[off + 2]
               + 16777216 * bytes[off + 1]

\* A 64-bit read; the values here have a zero high half.
HostU64(bytes, le) ==
    LET low == IF le THEN HostU32(bytes, 0, le) ELSE HostU32(bytes, 4, le)
        high == IF le THEN HostU32(bytes, 4, le) ELSE HostU32(bytes, 0, le)
    IN  IF high = 0 THEN low ELSE high * 65536 * 65536 + low

\* The fields with an accessor pair, and the libmnl getter of each.
SampleFields ==
    {PSAMPLE_ATTR_SAMPLE_GROUP, PSAMPLE_ATTR_SAMPLE_RATE, PSAMPLE_ATTR_IIFINDEX,
     PSAMPLE_ATTR_OIFINDEX, PSAMPLE_ATTR_ORIGSIZE, PSAMPLE_ATTR_GROUP_SEQ,
     PSAMPLE_ATTR_DATA, PSAMPLE_ATTR_OUT_TC, PSAMPLE_ATTR_OUT_TC_OCC,
     PSAMPLE_ATTR_LATENCY, PSAMPLE_ATTR_TIMESTAMP, PSAMPLE_ATTR_PROTO}

Getter(id) ==
    IF id \in {PSAMPLE_ATTR_IIFINDEX, PSAMPLE_ATTR_OIFINDEX, PSAMPLE_ATTR_OUT_TC,
               PSAMPLE_ATTR_PROTO} THEN "mnl_attr_get_u16"
    ELSE IF id \in {PSAMPLE_ATTR_OUT_TC_OCC, PSAMPLE_ATTR_LATENCY,
                    PSAMPLE_ATTR_TIMESTAMP} THEN "mnl_attr_get_u64"
    ELSE IF id = PSAMPLE_ATTR_DATA THEN "mnl_attr_get_payload"
    ELSE "mnl_attr_get_u32"

\* A plausible slip: the egress accessor pasted from the ingress one.
psample_msg_exist_pasted(tb, id) ==
    IF id = PSAMPLE_ATTR_OIFINDEX THEN tb[PSAMPLE_ATTR_IIFINDEX] # 0 ELSE tb[id] # 0

\* psample_msg_<field>_exist(msg): the slot is not null.
psample_msg_exist(tb, id) == tb[id] # 0

\* psample_msg_<field>(msg) on a slot that is set; for the sampled data, the
\* pair of psample_msg_data_len and the bytes at psample_msg_data.
psample_msg_get(attrs, tb, id, le) ==
    LET a == attrs[tb[id]]
        bytes == AttrPayload(a, le)
    IN  IF Getter(id) = "mnl_attr_get_u16" THEN HostU16(bytes, 0, le)
        ELSE IF Getter(id) = "mnl_attr_get_u64" THEN HostU64(bytes, le)
        ELSE IF Getter(id) = "mnl_attr_get_payload" THEN <<a.len, bytes>>
        ELSE HostU32(bytes, 0, le)

(***************************************************************************)
(* psample_group_foreach.  The dump request goes out on the control        *)
(* socket; the reply is the sequence of group records, ended by            *)
(* NLMSG_DONE.  A pointer to an object is the set holding the object's     *)
(* name, so &group_handler_data->cb_data is Ptr("group_handler_data.cb_data").*)
(***************************************************************************)
\* mnl_attr_get_u32(tb[id]) for a slot that is set.
mnl_attr_get_u32(attrs, tb, id) == attrs[tb[id]].val

\* A plausible slip: MNL_CB_OK returned whatever the callback returned.
group_handle_never_stops(m, idx, data, cb_ret, tb) ==
    IF tb[PSAMPLE_ATTR_SAMPLE_GROUP] = 0
       \/ tb[PSAMPLE_ATTR_GROUP_REFCOUNT] = 0
       \/ tb[PSAMPLE_ATTR_GROUP_SEQ] = 0
        THEN [ret |-> MNL_CB_ERROR, cb_retval |-> data.cb_retval, calls |-> <<>>]
    ELSE [ret |-> MNL_CB_OK,
          cb_retval |-> cb_ret,
          calls |-> << [idx |-> idx,
                        group |-> [num |-> mnl_attr_get_u32(m.attrs, tb, PSAMPLE_ATTR_SAMPLE_GROUP),
                                   refcount |-> mnl_attr_get_u32(m.attrs, tb, PSAMPLE_ATTR_GROUP_REFCOUNT),
                                   seq |-> mnl_attr_get_u32(m.attrs, tb, PSAMPLE_ATTR_GROUP_SEQ)],
                        data |-> Ptr("group_handler_data.cb_data"),
                        ret |-> cb_ret] >>]

\* group_handle on record m, the idx-th of the reply, with the table tb that
\* mnl_attr_parse filled (its return value is not read).  The callback gets
\* the address of the struct's cb_data field.
group_handle(m, idx, data, cb_ret, tb) ==
    IF tb[PSAMPLE_ATTR_SAMPLE_GROUP] = 0
       \/ tb[PSAMPLE_ATTR_GROUP_REFCOUNT] = 0
       \/ tb[PSAMPLE_ATTR_GROUP_SEQ] = 0
        THEN [ret |-> MNL_CB_ERROR, cb_retval |-> data.cb_retval, calls |-> <<>>]
    ELSE [ret |-> IF cb_ret # 0 THEN MNL_CB_STOP ELSE MNL_CB_OK,
          cb_retval |-> cb_ret,
          calls |-> << [idx |-> idx,
                        group |-> [num |-> mnl_attr_get_u32(m.attrs, tb, PSAMPLE_ATTR_SAMPLE_GROUP),
                                   refcount |-> mnl_attr_get_u32(m.attrs, tb, PSAMPLE_ATTR_GROUP_REFCOUNT),
                                   seq |-> mnl_attr_get_u32(m.attrs, tb, PSAMPLE_ATTR_GROUP_SEQ)],
                        data |-> Ptr("group_handler_data.cb_data"),
                        ret |-> cb_ret] >>]

\* mnlg_socket_recv_run on the control socket with group_handle, over the
\* records of the reply.  The receive fails with ENOBUFS before record
\* err_at + 1 (err_at = -1: never); a callback that returns MNL_CB_ERROR ends
\* the run with -1 and errno as it was (stale); NLMSG_DONE after the last
\* record ends it with 0.
RECURSIVE group_recv_run(_, _, _, _, _, _, _, _)
group_recv_run_next(dump, i, data, calls, stale, err_at, stop_at, v, r) ==
    IF r.ret <= MNL_CB_STOP
        THEN [err |-> r.ret, errno |-> stale, calls |-> calls \o r.calls,
              cb_retval |-> r.cb_retval]
    ELSE group_recv_run(dump, i + 1, [data EXCEPT !.cb_retval = r.cb_retval],
                        calls \o r.calls, stale, err_at, stop_at, v)

group_recv_run(dump, i, data, calls, stale, err_at, stop_at, v) ==
    IF err_at = i - 1
        THEN [err |-> -1, errno |-> ENOBUFS, calls |-> calls,
              cb_retval |-> data.cb_retval]
    ELSE IF i > Len(dump)
        THEN [err |-> 0, errno |-> stale, calls |-> calls,
              cb_retval |-> data.cb_retval]
    ELSE group_recv_run_next(dump, i, data, calls, stale, err_at, stop_at, v,
                             group_handle(dump[i], i, data,
                                          CbReturn(Len(calls) + 1, stop_at, v),
                                          mnl_attr_parse(dump[i].attrs).tb))

\* What psample_group_foreach returns once mnlg_socket_recv_run returned r.
group_foreach_return(r) ==
    IF r.err < 0
        THEN [ret |-> -r.errno, calls |-> r.calls, ended |-> "error"]
    ELSE [ret |-> r.cb_retval, calls |-> r.calls, ended |-> "done"]

\* psample_group_foreach(handle, group_cb, data) on a handle that is open.
\* garbage is what the uninitialised cb_retval of the local struct holds,
\* stale the value of errno when the call is made.
psample_group_foreach(group_cb, data, dump, garbage, stale, send_fails, err_at, stop_at, v) ==
    IF send_fails
        THEN [ret |-> -EPERM, calls |-> <<>>, ended |-> "send"]
    ELSE group_foreach_return(
            group_recv_run(dump, 1,
                           [cb |-> group_cb, cb_data |-> data, cb_retval |-> garbage],
                           <<>>, stale, err_at, stop_at, v))

(***************************************************************************)
(* The capture bridge.  The bytes of a block of memory are a sequence of   *)
(* runs: Run(src, off, n) is the n bytes of src from its offset off on.    *)
(* The sources are "sll" (the cooked header), "zero" (calloc'ed bytes),    *)
(* "datagram" (the datagram just received), "nlg_buf" (what the receive    *)
(* buffer holds behind the datagram) and "beyond" (what lies behind the    *)
(* receive buffer).                                                        *)
(***************************************************************************)
SLL_HDRLEN == 16

PCAP_SNAPLEN == 65535

\* MNL_SOCKET_BUFFER_SIZE is the page size, 8192 at most.
MnlSocketBufferSizes == {4096, 8192}

Run(src, off, n) == [src |-> src, off |-> off, n |-> n]

RECURSIVE TakeBytes(_, _)
TakeBytes(rs, n) ==
    IF n <= 0 \/ rs = <<>> THEN <<>>
    ELSE IF Head(rs).n <= n
        THEN <<Head(rs)>> \o TakeBytes(Tail(rs), n - Head(rs).n)
    ELSE <<[Head(rs) EXCEPT !.n = n]>>

RECURSIVE DropBytes(_, _)
DropBytes(rs, n) ==
    IF rs = <<>> THEN <<>>
    ELSE IF n <= 0 THEN rs
    ELSE IF Head(rs).n <= n THEN DropBytes(Tail(rs), n - Head(rs).n)
    ELSE <<[Head(rs) EXCEPT !.off = @ + n, !.n = @ - n]>> \o Tail(rs)

\* What a read at nlg->buf finds once a datagram of L bytes was received
\* into the buffer of size bytes.
NlgBuf(L, size) ==
    <<Run("datagram", 0, L)>>
    \o (IF L < size THEN <<Run("nlg_buf", L, size - L)>> ELSE <<>>)
    \o <<Run("beyond", 0, PCAP_SNAPLEN)>>

\* handle->psample_pcap after psample_open's calloc; buf is what pcap_buf
\* points to.
NoPcap == [snaplen |-> 0, pcap_handle |-> "none", pcap_dumper |-> "none",
           pcap_buf |-> "none", buf |-> <<>>]

psample_pcap_buf_init(p, calloc_fails) ==
    IF calloc_fails
        THEN [ret |-> -1, pcap |-> [p EXCEPT !.pcap_buf = "none", !.buf = <<>>]]
    ELSE [ret |-> 0,
          pcap |-> [p EXCEPT !.pcap_buf = "held",
                             !.buf = <<Run("sll", 0, SLL_HDRLEN),
                                       Run("zero", SLL_HDRLEN, p.snaplen - SLL_HDRLEN)>>]]

\* The releases, on x = [pcap, released]: released lists what was released,
\* in order.  free(NULL) does nothing.
psample_pcap_buf_fini(x) ==
    [pcap |-> [x.pcap EXCEPT !.pcap_buf = IF @ = "held" THEN "freed"
                                          ELSE IF @ = "none" THEN "none"
                                          ELSE "invalid",
                             !.buf = <<>>],
     released |-> Append(x.released, "pcap_buf")]

pcap_dump_close(x) ==
    [pcap |-> [x.pcap EXCEPT !.pcap_dumper = IF @ = "open" THEN "closed" ELSE "invalid"],
     released |-> Append(x.released, "pcap_dumper")]

pcap_close(x) ==
    [pcap |-> [x.pcap EXCEPT !.pcap_handle = IF @ = "open" THEN "closed" ELSE "invalid"],
     released |-> Append(x.released, "pcap_handle")]

\* psample_pcap_write(handle, buf, len): src is the memory at buf.  The frame
\* is what pcap_dump writes, hdr.caplen bytes of pcap_buf; overflow counts
\* the bytes memcpy writes behind the snaplen bytes of pcap_buf.
psample_pcap_write(p, src, len) ==
    LET pkt_len == IF len + SLL_HDRLEN < p.snaplen THEN len + SLL_HDRLEN
                   ELSE p.snaplen - SLL_HDRLEN
        written == TakeBytes(p.buf, SLL_HDRLEN) \o TakeBytes(src, pkt_len)
                   \o DropBytes(p.buf, SLL_HDRLEN + pkt_len)
    IN  [pcap |-> [p EXCEPT !.buf = TakeBytes(written, p.snaplen)],
         frame |-> [caplen |-> pkt_len, len |-> pkt_len,
                    bytes |-> TakeBytes(written, pkt_len)],
         overflow |-> IF SLL_HDRLEN + pkt_len > p.snaplen
                      THEN SLL_HDRLEN + pkt_len - p.snaplen ELSE 0]

\* The loop of psample_socket_recv_write and of psample_pcap_genl_init:
\* mnl_socket_recvfrom returns lens[1], lens[2], ... (each positive), every
\* datagram is written with len = MNL_SOCKET_BUFFER_SIZE.
RECURSIVE recv_write_loop(_, _, _, _, _, _)
recv_write_loop(p, lens, i, size, frames, overflow) ==
    IF i > Len(lens) THEN [pcap |-> p, frames |-> frames, overflow |-> overflow]
    ELSE LET w == psample_pcap_write(p, NlgBuf(lens[i], size), size) IN
         recv_write_loop(w.pcap, lens, i + 1, size, Append(frames, w.frame),
                         overflow + w.overflow)

\* end is what the last mnl_socket_recvfrom returns, 0 or -1.
psample_socket_recv_write(p, lens, end, size) ==
    LET r == recv_write_loop(p, lens, 1, size, <<>>, 0) IN
    [err |-> end, pcap |-> r.pcap, frames |-> r.frames, overflow |-> r.overflow]

psample_pcap_genl_init(p, send_fails, lens, end, size) ==
    IF send_fails THEN [err |-> -1, pcap |-> p, frames |-> <<>>, overflow |-> 0]
    ELSE LET r == recv_write_loop(p, lens, 1, size, <<>>, 0) IN
         [err |-> end, pcap |-> r.pcap, frames |-> r.frames, overflow |-> r.overflow]

PcapFailures == {"none", "open_dead", "dump_open", "calloc", "send", "recv"}

pcap_init_return(ret, x, acquired, g) ==
    [ret |-> ret, pcap |-> x.pcap, acquired |-> acquired, released |-> x.released,
     frames |-> g.frames, overflow |-> g.overflow]

NoFrames == [frames |-> <<>>, overflow |-> 0]

\* A plausible slip: the dump sink is not closed when the frame buffer cannot
\* be allocated.
psample_pcap_init_leaks_dumper(p, fail, lens, size) ==
    LET p0 == [p EXCEPT !.snaplen = PCAP_SNAPLEN]
        p1 == [p0 EXCEPT !.pcap_handle = "open"]
        p2 == [p1 EXCEPT !.pcap_dumper = "open"]
        b == psample_pcap_buf_init(p2, fail = "calloc")
        g == psample_pcap_genl_init(b.pcap, fail = "send", lens,
                                    IF fail = "recv" THEN -1 ELSE 0, size)
    IN
    IF fail = "open_dead"
        THEN pcap_init_return(-1, [pcap |-> [p0 EXCEPT !.pcap_handle = "none"],
                                   released |-> <<>>], <<>>, NoFrames)
    ELSE IF fail = "dump_open"
        THEN pcap_init_return(-1, pcap_close([pcap |-> [p1 EXCEPT !.pcap_dumper = "none"],
                                              released |-> <<>>]),
                              <<"pcap_handle">>, NoFrames)
    ELSE IF b.ret # 0
        THEN pcap_init_return(-1, pcap_close([pcap |-> b.pcap, released |-> <<>>]),
                              <<"pcap_handle", "pcap_dumper">>, NoFrames)
    ELSE IF g.err # 0
        THEN pcap_init_return(-1, pcap_close(pcap_dump_close(psample_pcap_buf_fini(
                                        [pcap |-> g.pcap, released |-> <<>>]))),
                              <<"pcap_handle", "pcap_dumper", "pcap_buf">>, g)
    ELSE pcap_init_return(0, [pcap |-> g.pcap, released |-> <<>>],
                          <<"pcap_handle", "pcap_dumper", "pcap_buf">>, g)

\* psample_pcap_init(out_file, handle) on a valid handle.  fail names the
\* step that fails; the family exchange fails in its send or in a receive.
psample_pcap_init(p, fail, lens, size) ==
    LET p0 == [p EXCEPT !.snaplen = PCAP_SNAPLEN]
        p1 == [p0 EXCEPT !.pcap_handle = "open"]
        p2 == [p1 EXCEPT !.pcap_dumper = "open"]
        b == psample_pcap_buf_init(p2, fail = "calloc")
        g == psample_pcap_genl_init(b.pcap, fail = "send", lens,
                                    IF fail = "recv" THEN -1 ELSE 0, size)
    IN
    IF fail = "open_dead"
        THEN pcap_init_return(-1, [pcap |-> [p0 EXCEPT !.pcap_handle = "none"],
                                   released |-> <<>>], <<>>, NoFrames)
    ELSE IF fail = "dump_open"
        THEN pcap_init_return(-1, pcap_close([pcap |-> [p1 EXCEPT !.pcap_dumper = "none"],
                                              released |-> <<>>]),
                              <<"pcap_handle">>, NoFrames)
    ELSE IF b.ret # 0
        THEN pcap_init_return(-1, pcap_close(pcap_dump_close(
                                        [pcap |-> b.pcap, released |-> <<>>])),
                              <<"pcap_handle", "pcap_dumper">>, NoFrames)
    ELSE IF g.err # 0
        THEN pcap_init_return(-1, pcap_close(pcap_dump_close(psample_pcap_buf_fini(
                                        [pcap |-> g.pcap, released |-> <<>>]))),
                              <<"pcap_handle", "pcap_dumper", "pcap_buf">>, g)
    ELSE pcap_init_return(0, [pcap |-> g.pcap, released |-> <<>>],
                          <<"pcap_handle", "pcap_dumper", "pcap_buf">>, g)

psample_pcap_fini(p) ==
    pcap_close(pcap_dump_close(psample_pcap_buf_fini([pcap |-> p, released |-> <<>>])))

\* psample_write_pcap_dispatch(handle): the socket is set blocking, so the
\* loop ends with a receive that returns 0 or fails with errno.
psample_write_pcap_dispatch(h, p, sample, lens, end, errno, size, fcntl_fails) ==
    IF h = NULL
        THEN [ret |-> -ENOMEM, sample |-> sample, pcap |-> p, frames |-> <<>>,
              overflow |-> 0]
    ELSE LET r == psample_socket_recv_write(p, lens, end, size) IN
         [ret |-> IF r.err < 0 THEN -errno ELSE 0,
          sample |-> psample_set_blocking(sample, TRUE, fcntl_fails),
          pcap |-> r.pcap, frames |-> r.frames, overflow |-> r.overflow]

(***************************************************************************)
(* psample_bind_group when its malloc returns NULL.  The result is not     *)
(* tested: memcpy and the patch write through the null pointer, which is   *)
(* undefined.  The process is killed by SIGSEGV, or, where page zero is    *)
(* mapped, the writes land there and the program at address 0 is attached. *)
(***************************************************************************)
NullWriteOutcomes == {"SIGSEGV", "page_zero"}

psample_bind_group_malloc_null(h, group, sample, m, le, detach_fails, outcome) ==
    IF h = NULL
        THEN [ret |-> -EINVAL, handle |-> h, sample |-> sample, mem |-> m,
              ops |-> <<>>, signal |-> "none"]
    ELSE
    LET held == Deref(h).filter # NULL
        detach_errno == IF sample.filter = NULL THEN ENOENT
                        ELSE IF detach_fails THEN EPERM ELSE 0
    IN
    IF held /\ detach_errno # 0
        THEN [ret |-> -detach_errno, handle |-> h, sample |-> sample, mem |-> m,
              ops |-> <<"detach">>, signal |-> "none"]
    ELSE
    LET s1 == IF held THEN [sample EXCEPT !.filter = NULL] ELSE sample
        m1 == IF held THEN [m EXCEPT !.filter = @ - 1] ELSE m
        ops1 == IF held THEN <<"detach", "free">> ELSE <<>>
        h2 == Ptr([filter |-> NULL])
    IN
    IF outcome = "SIGSEGV"
        THEN [ret |-> 0, handle |-> h2, sample |-> s1, mem |-> m1,
              ops |-> ops1 \o <<"malloc">>, signal |-> "SIGSEGV"]
    ELSE [ret |-> 0, handle |-> h2,
          sample |-> [s1 EXCEPT !.filter = Ptr(PatchedFilter(group, le))],
          mem |-> m1, ops |-> ops1 \o <<"malloc", "attach">>, signal |-> "none"]

(***************************************************************************)
(* The inputs.                                                             *)
(***************************************************************************)
BindGroups == {1, 7}

\* Group numbers carried by messages; 16777216 is 1 with its bytes swapped.
WireGroups == {1, 7, 16777216}

Attr(id, len, val) == [id |-> id, len |-> len, val |-> val]

\* The attributes a message on the wire is built from: the sampling group as
\* a 32-bit and as a 16-bit attribute, the ingress interface index as a
\* 16-bit and as a 32-bit attribute, the (unconstrained) sampled data, and an
\* attribute whose id is above PSAMPLE_ATTR_MAX.
WireAttrs ==
    {Attr(PSAMPLE_ATTR_SAMPLE_GROUP, 4, g) : g \in WireGroups}
    \cup {Attr(PSAMPLE_ATTR_SAMPLE_GROUP, 2, 1)}
    \cup {Attr(PSAMPLE_ATTR_IIFINDEX, l, 2) : l \in {2, 4}}
    \cup {Attr(PSAMPLE_ATTR_DATA, 4, 2)}
    \cup {Attr(PSAMPLE_ATTR_MAX + 1, 4, 2)}

SeqsUpTo(S, n) == UNION {[1..k -> S] : k \in 0..n}

\* Neither the filter nor the decoder reads the command.
WireMessages == [cmd : {PSAMPLE_CMD_SAMPLE}, attrs : SeqsUpTo(WireAttrs, MaxAttrs)]

\* The messages of the session: samples of either group, a sample with no
\* group, a sample whose interface index has the wrong width, and a
\* configuration notification.
SessionMessages ==
    {[cmd |-> PSAMPLE_CMD_SAMPLE, attrs |-> <<Attr(PSAMPLE_ATTR_SAMPLE_GROUP, 4, g)>>]
        : g \in BindGroups}
    \cup {[cmd |-> PSAMPLE_CMD_SAMPLE, attrs |-> <<>>],
          [cmd |-> PSAMPLE_CMD_SAMPLE,
           attrs |-> <<Attr(PSAMPLE_ATTR_SAMPLE_GROUP, 4, 1),
                       Attr(PSAMPLE_ATTR_IIFINDEX, 4, 2)>>],
          [cmd |-> PSAMPLE_CMD_NEW_GROUP,
           attrs |-> <<Attr(PSAMPLE_ATTR_SAMPLE_GROUP, 4, 7)>>]}

\* The messages of SpecDispatch: a well-formed sample, a sample whose
\* interface index has the wrong width, and a configuration notification.
DispatchMessages ==
    {[cmd |-> PSAMPLE_CMD_SAMPLE, attrs |-> <<Attr(PSAMPLE_ATTR_SAMPLE_GROUP, 4, 1)>>],
     [cmd |-> PSAMPLE_CMD_SAMPLE,
      attrs |-> <<Attr(PSAMPLE_ATTR_SAMPLE_GROUP, 4, 1),
                  Attr(PSAMPLE_ATTR_IIFINDEX, 4, 2)>>],
     [cmd |-> PSAMPLE_CMD_NEW_GROUP,
      attrs |-> <<Attr(PSAMPLE_ATTR_SAMPLE_GROUP, 4, 7)>>]}

Garbage == {0, 7}           \* what an uninitialised int may hold
CbNonZero == {-3, 5}        \* non-zero callback results

(***************************************************************************)
(* The session: Init and the actions.                                      *)
(***************************************************************************)
IdleWire == [msg |-> NULL, verdict |-> NULL, parse |-> NULL]

Init ==
    /\ littleEndian \in BOOLEAN
    /\ handle = NULL
    /\ mem = [handle |-> 0, filter |-> 0]
    /\ sample_sock = NoSock
    /\ control_sock = NoSock
    /\ queue = <<>>
    /\ last = [op |-> "none"]
    /\ wire = IdleWire
    /\ bufsize \in MnlSocketBufferSizes
    /\ pcap = NoPcap

\* h = psample_open(), called by a caller that holds no handle.
OpenWith(Failures) ==
    /\ handle = NULL
    /\ \E fail \in Failures :
        LET r == psample_open(fail, mem) IN
        /\ handle' = r.ret
        /\ mem' = r.mem
        /\ sample_sock' = r.sample
        /\ control_sock' = r.control
        /\ queue' = <<>>
        /\ last' = [op |-> "open", fail |-> fail, ret |-> r.ret]
    /\ UNCHANGED <<bufsize, pcap, littleEndian, wire>>

Open == OpenWith(OpenFailures)

\* psample_close(h); the caller drops its pointer.
Close ==
    /\ LET r == psample_close(handle, mem, sample_sock, control_sock) IN
        /\ mem' = r.mem
        /\ sample_sock' = r.sample
        /\ control_sock' = r.control
        /\ queue' = IF handle = NULL THEN queue ELSE <<>>
        /\ last' = [op |-> "close", arg |-> handle,
                    pre |-> [mem |-> mem, sample |-> sample_sock,
                             control |-> control_sock]]
    /\ handle' = NULL
    /\ UNCHANGED <<bufsize, pcap, littleEndian, wire>>

\* psample_bind_group(h, group).
BindGroupWith(Fails) ==
    /\ \E group \in BindGroups, detach_fails \in Fails, attach_fails \in Fails :
        LET r == psample_bind_group(handle, group, sample_sock, mem, littleEndian,
                                    detach_fails, attach_fails) IN
        /\ handle' = r.handle
        /\ sample_sock' = r.sample
        /\ mem' = r.mem
        /\ last' = [op |-> "bind_group", arg |-> handle, group |-> group,
                    detach_fails |-> detach_fails, attach_fails |-> attach_fails,
                    ret |-> r.ret, ops |-> r.ops,
                    pre |-> [attached |-> sample_sock.filter]]
    /\ UNCHANGED <<bufsize, pcap, littleEndian, control_sock, queue, wire>>

BindGroup == BindGroupWith(BOOLEAN)

\* The kernel multicasts message m: the event socket queues it unless the
\* attached program drops it.
ArriveFrom(Messages) ==
    /\ sample_sock.state = "open"
    /\ Len(queue) < MaxQueue
    /\ \E m \in Messages :
        LET accepted == \/ sample_sock.filter = NULL
                        \/ FilterAccepts(Deref(sample_sock.filter), m, littleEndian)
        IN  /\ queue' = IF accepted THEN Append(queue, m) ELSE queue
            /\ last' = [op |-> "arrive", msg |-> m, accepted |-> accepted]
    /\ UNCHANGED <<bufsize, pcap, littleEndian, handle, mem, sample_sock, control_sock, wire>>

Arrive == ArriveFrom(SessionMessages)

ArriveDispatch == ArriveFrom(DispatchMessages)

\* How a call of dispatch is made to end: a callback invocation returns a
\* non-zero value, or a receive fails with ENOBUFS, or neither.
RunOut == [err_at |-> -1, stop_at |-> 0, v |-> 0]

DispatchPlans(n) ==
    {RunOut}
    \cup {[err_at |-> -1, stop_at |-> k, v |-> x] : k \in 1..n, x \in CbNonZero}
    \cup {[err_at |-> k, stop_at |-> 0, v |-> 0] : k \in 0..n}

\* psample_dispatch(h, msg_cb, msg_data, config_cb, config_data, block), for
\* the calls that return.
DispatchReturns(r, msg_cb, config_cb, block) ==
    /\ ~r.blocked
    /\ sample_sock' = r.sample
    /\ queue' = SubSeq(queue, r.consumed + 1, Len(queue))
    /\ last' = [op |-> "dispatch", arg |-> handle, msg_cb |-> msg_cb,
                config_cb |-> config_cb, block |-> block,
                batch |-> SubSeq(queue, 1, r.consumed),
                calls |-> r.calls, ended |-> r.ended, errno |-> r.errno,
                ret |-> r.ret]

DispatchWith(Plans, Blocks) ==
    /\ \E msg_cb \in {NULL, Ptr("msg_cb")}, config_cb \in {NULL, Ptr("config_cb")},
          block \in Blocks, garbage \in Garbage, plan \in Plans :
       \E fcntl_fails \in IF sample_sock.nonblock = ~block THEN {FALSE} ELSE BOOLEAN :
        DispatchReturns(
            psample_dispatch(handle, msg_cb, Ptr("msg_data"), config_cb,
                             Ptr("config_data"), block, sample_sock, queue,
                             garbage, fcntl_fails, plan.err_at, plan.stop_at, plan.v),
            msg_cb, config_cb, block)
    /\ UNCHANGED <<bufsize, pcap, littleEndian, handle, mem, control_sock, wire>>

\* Dispatch in full.
Dispatch == DispatchWith(DispatchPlans(Len(queue)), BOOLEAN)

\* Dispatch without blocking, every callback invoked returning 0 and no
\* receive failing before the queue is empty.
DispatchDrain == DispatchWith({RunOut}, {FALSE})

Next == Open \/ Close \/ BindGroup \/ Arrive \/ DispatchDrain

Spec == Init /\ [][Next]_vars

InitDispatch == Init /\ littleEndian

NextDispatch == Open \/ Close \/ ArriveDispatch \/ Dispatch

SpecDispatch == InitDispatch /\ [][NextDispatch]_vars

(***************************************************************************)
(* SpecGroups: group enumeration on an open handle.                        *)
(***************************************************************************)
\* The records of a dump: a complete group, a record without its reference
\* count, a record whose group number has the wrong width, and a complete
\* record followed by an interface index of the wrong width.
GroupRecord(num, refcount, seq) ==
    [cmd |-> PSAMPLE_CMD_NEW_GROUP,
     attrs |-> <<Attr(PSAMPLE_ATTR_SAMPLE_GROUP, 4, num),
                 Attr(PSAMPLE_ATTR_GROUP_REFCOUNT, 4, refcount),
                 Attr(PSAMPLE_ATTR_GROUP_SEQ, 4, seq)>>]

DumpRecords ==
    {GroupRecord(1, 2, 3)}
    \cup {[cmd |-> PSAMPLE_CMD_NEW_GROUP,
           attrs |-> <<Attr(PSAMPLE_ATTR_SAMPLE_GROUP, 4, 1),
                       Attr(PSAMPLE_ATTR_GROUP_SEQ, 4, 3)>>],
          [cmd |-> PSAMPLE_CMD_NEW_GROUP,
           attrs |-> <<Attr(PSAMPLE_ATTR_SAMPLE_GROUP, 2, 1),
                       Attr(PSAMPLE_ATTR_GROUP_REFCOUNT, 4, 2),
                       Attr(PSAMPLE_ATTR_GROUP_SEQ, 4, 3)>>],
          [cmd |-> PSAMPLE_CMD_NEW_GROUP,
           attrs |-> GroupRecord(7, 1, 9).attrs \o <<Attr(PSAMPLE_ATTR_IIFINDEX, 4, 2)>>]}

Dumps == SeqsUpTo(DumpRecords, MaxDump)

StaleErrno == {0, EWOULDBLOCK}   \* errno as earlier calls left it

\* psample_group_foreach(handle, group_cb, data).
GroupForeachReturns(r, data, dump) ==
    last' = [op |-> "group_foreach", arg |-> handle, data |-> data,
             dump |-> dump, calls |-> r.calls, ended |-> r.ended, ret |-> r.ret]

GroupForeach ==
    /\ handle # NULL
    /\ \E dump \in Dumps, garbage \in Garbage, stale \in StaleErrno,
          send_fails \in BOOLEAN :
       \E plan \in IF send_fails THEN {RunOut} ELSE DispatchPlans(Len(dump)) :
        GroupForeachReturns(
            psample_group_foreach(Ptr("group_cb"), Ptr("group_data"), dump, garbage,
                                  stale, send_fails, plan.err_at, plan.stop_at, plan.v),
            Ptr("group_data"), dump)
    /\ UNCHANGED <<bufsize, pcap, littleEndian, handle, mem, sample_sock, control_sock, queue, wire>>

InitGroups == Init /\ littleEndian

NextGroups == OpenWith({"none"}) \/ Close \/ GroupForeach

SpecGroups == InitGroups /\ [][NextGroups]_vars

(***************************************************************************)
(* SpecAccess: one sample that carries a subset of the sample attributes   *)
(* is received and dispatched.                                             *)
(***************************************************************************)
\* The value each field is given, in the width the kernel sends it.
SampleAttr(id) ==
    Attr(id,
         IF Getter(id) = "mnl_attr_get_u16" THEN 2
         ELSE IF Getter(id) = "mnl_attr_get_u64" THEN 8 ELSE 4,
         IF id = PSAMPLE_ATTR_SAMPLE_GROUP THEN 7
         ELSE IF id = PSAMPLE_ATTR_SAMPLE_RATE THEN 100
         ELSE IF id = PSAMPLE_ATTR_IIFINDEX THEN 2
         ELSE 256 * id + 3)

\* The attributes of the fields in S, in the order of their ids.
RECURSIVE AttrsOf(_)
AttrsOf(S) ==
    IF S = {} THEN <<>>
    ELSE LET id == CHOOSE x \in S : \A y \in S : x <= y
         IN  <<SampleAttr(id)>> \o AttrsOf(S \ {id})

SampleMessages ==
    {[cmd |-> PSAMPLE_CMD_SAMPLE, attrs |-> AttrsOf(S)]
        : S \in {T \in SUBSET SampleFields : Cardinality(T) <= MaxSubset}}

\* One sample arrives on an empty queue.
ArriveSample == queue = <<>> /\ ArriveFrom(SampleMessages)

NextAccess == OpenWith({"none"}) \/ ArriveSample \/ DispatchDrain

SpecAccess == Init /\ [][NextAccess]_vars

(***************************************************************************)
(* SpecCapture: the capture bridge on an open handle, next to bind_group   *)
(* with and without memory.                                                *)
(***************************************************************************)
MaxFrames == 2      \* datagrams received per call

\* The lengths of the datagrams received.
DatagramLens == {20, 36}

ReceivedLens == SeqsUpTo(DatagramLens, MaxFrames)

PcapInitReturns(r, fail, lens) ==
    /\ pcap' = r.pcap
    /\ last' = [op |-> "pcap_init", fail |-> fail, ret |-> r.ret,
                lens |-> IF r.frames = <<>> THEN <<>> ELSE lens,
                frames |-> r.frames, overflow |-> r.overflow,
                acquired |-> r.acquired, released |-> r.released]

\* psample_pcap_init(out_file, handle), by a caller whose handle holds no
\* capture state.
PcapInit ==
    /\ handle # NULL
    /\ pcap.pcap_handle # "open"
    /\ \E fail \in PcapFailures, lens \in ReceivedLens :
        PcapInitReturns(psample_pcap_init(pcap, fail, lens, bufsize), fail, lens)
    /\ UNCHANGED <<bufsize, littleEndian, handle, mem, sample_sock, control_sock,
                   queue, wire>>

\* psample_pcap_fini(handle), after a psample_pcap_init that returned 0.
PcapFini ==
    /\ handle # NULL
    /\ pcap.pcap_handle = "open"
    /\ LET r == psample_pcap_fini(pcap) IN
        /\ pcap' = r.pcap
        /\ last' = [op |-> "pcap_fini", released |-> r.released]
    /\ UNCHANGED <<bufsize, littleEndian, handle, mem, sample_sock, control_sock,
                   queue, wire>>

WritePcapReturns(r, lens, end) ==
    /\ pcap' = r.pcap
    /\ sample_sock' = r.sample
    /\ last' = [op |-> "write_pcap_dispatch", arg |-> handle, ret |-> r.ret,
                lens |-> lens, end |-> end, frames |-> r.frames,
                overflow |-> r.overflow]

\* psample_write_pcap_dispatch(handle), with NULL or with a handle whose
\* capture state is initialised.
WritePcapDispatch ==
    /\ handle = NULL \/ pcap.pcap_handle = "open"
    /\ \E lens \in (IF handle = NULL THEN {<<>>} ELSE ReceivedLens),
          end \in (IF handle = NULL THEN {0} ELSE {0, -1}),
          fcntl_fails \in BOOLEAN :
        WritePcapReturns(psample_write_pcap_dispatch(handle, pcap, sample_sock, lens,
                                                     end, ENOBUFS, bufsize, fcntl_fails),
                         lens, end)
    /\ UNCHANGED <<bufsize, littleEndian, handle, mem, control_sock, queue, wire>>

\* psample_bind_group(h, group) with malloc returning NULL.  SIGSEGV ends the
\* process: its memory and its sockets are gone.
BindGroupMallocNull ==
    /\ \E group \in BindGroups, outcome \in NullWriteOutcomes :
        LET r == psample_bind_group_malloc_null(handle, group, sample_sock, mem,
                                                littleEndian, FALSE, outcome)
            killed == r.signal # "none"
        IN
        /\ handle' = IF killed THEN NULL ELSE r.handle
        /\ sample_sock' = IF killed THEN NoSock ELSE r.sample
        /\ control_sock' = IF killed THEN NoSock ELSE control_sock
        /\ mem' = IF killed THEN [handle |-> 0, filter |-> 0] ELSE r.mem
        /\ pcap' = IF killed THEN NoPcap ELSE pcap
        /\ queue' = IF killed THEN <<>> ELSE queue
        /\ last' = [op |-> "bind_group_malloc_null", arg |-> handle, group |-> group,
                    ret |-> r.ret, ops |-> r.ops, signal |-> r.signal,
                    pre |-> [attached |-> sample_sock.filter]]
    /\ UNCHANGED <<bufsize, littleEndian, wire>>

InitCapture == Init /\ littleEndian

NextCapture ==
    \/ OpenWith({"none", "calloc"})
    \/ BindGroupWith({FALSE})
    \/ BindGroupMallocNull
    \/ PcapInit
    \/ PcapFini
    \/ WritePcapDispatch

SpecCapture == InitCapture /\ [][NextCapture]_vars

(***************************************************************************)
(* SpecWire: a handle is opened and bound (every call succeeding), and one *)
(* message of the wire is put to the event socket, whose attached program  *)
(* passes or drops it; a message passed is decoded.                        *)
(***************************************************************************)
InitWire ==
    /\ littleEndian \in BOOLEAN
    /\ handle = NULL
    /\ mem = [handle |-> 0, filter |-> 0]
    /\ sample_sock = NoSock
    /\ control_sock = NoSock
    /\ queue = <<>>
    /\ last = [op |-> "none"]
    /\ \E m \in WireMessages : wire = [IdleWire EXCEPT !.msg = Ptr(m)]
    /\ bufsize \in MnlSocketBufferSizes
    /\ pcap = NoPcap

\* The kernel puts the message to the event socket: the value the attached
\* program returns, BPF_PASS with no program attached.
WireFilter ==
    /\ sample_sock.state = "open"
    /\ wire' = [wire EXCEPT
                  !.verdict =
                    Ptr([prog |-> sample_sock.filter,
                         ret |-> IF sample_sock.filter = NULL THEN BPF_PASS
                                 ELSE BpfRun(Deref(sample_sock.filter),
                                             MsgBytes(Deref(wire.msg), littleEndian),
                                             0, 0, 0, littleEndian)]),
                  !.parse = NULL]
    /\ UNCHANGED <<bufsize, pcap, littleEndian, handle, mem, sample_sock, control_sock, queue, last>>

\* mnl_attr_parse(nlhdr, sizeof(struct genlmsghdr), attr_cb, tb) on the
\* message the socket delivered.
WireDecode ==
    /\ wire.verdict # NULL
    /\ Deref(wire.verdict).ret # BPF_DROP
    /\ wire' = [wire EXCEPT !.parse = Ptr(mnl_attr_parse(Deref(wire.msg).attrs))]
    /\ UNCHANGED <<bufsize, pcap, littleEndian, handle, mem, sample_sock, control_sock, queue, last>>

NextWire == OpenWith({"none"}) \/ BindGroupWith({FALSE}) \/ WireFilter \/ WireDecode

SpecWire == InitWire /\ [][NextWire]_vars
(***************************************************************************)
(* The properties.  Words about a message, taken from its attribute list   *)
(* and not from its bytes.                                                 *)
(***************************************************************************)
GroupPositions(m) ==
    {i \in 1..Len(m.attrs) : m.attrs[i].id = PSAMPLE_ATTR_SAMPLE_GROUP}

FirstGroupAttr(m) ==
    m.attrs[CHOOSE i \in GroupPositions(m) : \A j \in GroupPositions(m) : i <= j]

\* The 32-bit word, in host order, that starts at the payload of attribute a:
\* its value if it is 32 bits wide, and a 16-bit value followed by the two
\* bytes of padding otherwise.
PayloadWord(a, le) ==
    IF a.len = 4 THEN a.val ELSE IF le THEN a.val ELSE a.val * 65536

\* The attribute fails attr_cb's validation.
InvalidAttr(a) ==
    \/ a.id > PSAMPLE_ATTR_MAX
    \/ a.id \in {PSAMPLE_ATTR_IIFINDEX, PSAMPLE_ATTR_OIFINDEX} /\ a.len # 2
    \/ a.id \in {PSAMPLE_ATTR_SAMPLE_RATE, PSAMPLE_ATTR_ORIGSIZE,
                 PSAMPLE_ATTR_SAMPLE_GROUP, PSAMPLE_ATTR_GROUP_SEQ,
                 PSAMPLE_ATTR_GROUP_REFCOUNT} /\ a.len # 4

InvalidMessage(m) == \E i \in 1..Len(m.attrs) : InvalidAttr(m.attrs[i])

\* The message on the wire was put to the program that the last, successful
\* psample_bind_group installed.
FilteredAfterBind ==
    /\ last.op = "bind_group"
    /\ last.ret = 0
    /\ wire.verdict # NULL
    /\ Deref(wire.verdict).prog = sample_sock.filter

\* C1 (as amended): after a successful psample_bind_group(handle, g) the
\* installed program accepts a message if and only if the message carries no
\* sampling-group attribute or the 32-bit word at the payload of its first
\* sampling-group attribute equals g; every other message is dropped (the
\* program returns 0).
C1_FilterAcceptsGroupOrNoGroup ==
    FilteredAfterBind =>
        LET m == Deref(wire.msg)
            ret == Deref(wire.verdict).ret
            passes == \/ GroupPositions(m) = {}
                      \/ PayloadWord(FirstGroupAttr(m), littleEndian) = last.group
        IN  /\ sample_sock.filter # NULL
            /\ ret = IF passes THEN BPF_PASS ELSE BPF_DROP

\* C1, witness: on a little-endian host the program bound to group 1 dropped a
\* message of group 16777216, the byte-swapped 1.
C1_Witness_OtherGroupDropped ==
    /\ FilteredAfterBind
    /\ littleEndian
    /\ last.group = 1
    /\ GroupPositions(Deref(wire.msg)) # {}
    /\ FirstGroupAttr(Deref(wire.msg)) = Attr(PSAMPLE_ATTR_SAMPLE_GROUP, 4, 16777216)
    /\ Deref(wire.verdict).ret = BPF_DROP

\* C1 (as stated): after a successful psample_bind_group(handle, g) a message
\* that carries no sampling-group attribute at all is dropped.
C1_Stated_NoGroupDropped ==
    FilteredAfterBind /\ GroupPositions(Deref(wire.msg)) = {}
        => Deref(wire.verdict).ret = BPF_DROP

\* C10: if the attribute at position i has an id above the maximum id or a
\* wire type that mismatches the type mandated for its id, the decode fails,
\* the table slot of attribute i is not written and no slot is written for an
\* attribute at a position after i.
C10_DecodeFailsAtInvalidAttr ==
    wire.parse # NULL =>
        LET attrs == Deref(wire.msg).attrs
            r == Deref(wire.parse)
        IN  \A i \in 1..Len(attrs) :
                InvalidAttr(attrs[i]) =>
                    /\ r.ret = MNL_CB_ERROR
                    /\ \A id \in AttrIds : r.tb[id] < i

\* C10, witness: a message decoded whose first attribute has the wrong width
\* for its id and whose second attribute is valid.
C10_Witness_InvalidThenValid ==
    /\ wire.parse # NULL
    /\ Len(Deref(wire.msg).attrs) = 2
    /\ Deref(wire.msg).attrs[1].id <= PSAMPLE_ATTR_MAX
    /\ InvalidAttr(Deref(wire.msg).attrs[1])
    /\ ~InvalidAttr(Deref(wire.msg).attrs[2])
    /\ Deref(wire.parse).ret = MNL_CB_ERROR

\* A sample of group g.
SampleOfGroup(g) ==
    [cmd |-> PSAMPLE_CMD_SAMPLE, attrs |-> <<Attr(PSAMPLE_ATTR_SAMPLE_GROUP, 4, g)>>]

\* C2: over any sequence of psample_bind_group calls at most one filter
\* program exists: the event socket runs no program but the one the handle
\* holds, a program installed before is detached and its buffer freed before
\* the new one is attached, and after a successful bind_group(G2) the one
\* program installed matches G2 and no other group.
C2_OneFilterAtATime ==
    /\ mem.filter <= 1
    /\ sample_sock.filter # NULL =>
            handle # NULL /\ Deref(handle).filter = sample_sock.filter
    /\ last.op = "bind_group" =>
        /\ last.pre.attached # NULL /\ (\E k \in DOMAIN last.ops : last.ops[k] = "attach") =>
                last.ops = <<"detach", "free", "malloc", "attach">>
        /\ last.ret = 0 =>
            /\ sample_sock.filter # NULL
            /\ mem.filter = 1
            /\ \A g \in BindGroups :
                FilterAccepts(Deref(sample_sock.filter), SampleOfGroup(g), littleEndian)
                    <=> g = last.group

\* C2, witness: a successful bind_group(G2) on a handle whose socket ran the
\* program of another group G1.
C2_Witness_Rebound ==
    /\ last.op = "bind_group"
    /\ last.ret = 0
    /\ last.pre.attached # NULL
    /\ last.pre.attached # sample_sock.filter

\* C7: psample_open is all-or-nothing: if a step fails it returns null with
\* the event connection and the handle memory released, and it returns a
\* handle only with both connections open and both groups joined.
C7_OpenAllOrNothing ==
    last.op = "open" =>
        /\ last.fail # "none" => last.ret = NULL
        /\ last.ret = NULL =>
            /\ sample_sock.state # "open"
            /\ control_sock.state # "open"
            /\ sample_sock.groups = {}
            /\ mem = [handle |-> 0, filter |-> 0]
        /\ last.ret # NULL =>
            /\ sample_sock.state = "open"
            /\ control_sock.state = "open"
            /\ sample_sock.groups = {"config", "packets"}
            /\ mem.handle = 1

\* C7, witness: the last step, opening the control connection, failed after
\* the event connection was open and joined, and the event connection is closed.
C7_Witness_ControlOpenFailed ==
    /\ last.op = "open"
    /\ last.fail = "control_open"
    /\ last.ret = NULL
    /\ sample_sock.state = "closed"
    /\ sample_sock.closes = 1

\* C8: psample_close on a null handle does nothing; on an open handle it
\* closes each connection exactly once, frees the filter buffer exactly when
\* one is held and frees the handle, and no connection, filter buffer or
\* filter attachment remains.
C8_CloseReleasesEverything ==
    last.op = "close" =>
        IF last.arg = NULL
            THEN /\ mem = last.pre.mem
                 /\ sample_sock = last.pre.sample
                 /\ control_sock = last.pre.control
        ELSE /\ last.pre.sample.state = "open" /\ sample_sock.state = "closed"
             /\ sample_sock.closes = last.pre.sample.closes + 1
             /\ last.pre.control.state = "open" /\ control_sock.state = "closed"
             /\ control_sock.closes = last.pre.control.closes + 1
             /\ mem.filter = last.pre.mem.filter
                                - (IF Deref(last.arg).filter # NULL THEN 1 ELSE 0)
             /\ mem = [handle |-> 0, filter |-> 0]
             /\ sample_sock.filter = NULL

\* C8, witness: a handle closed that held a filter buffer whose program the
\* event socket ran.
C8_Witness_ClosedWithFilter ==
    /\ last.op = "close"
    /\ last.arg # NULL
    /\ Deref(last.arg).filter # NULL
    /\ last.pre.sample.filter # NULL
    /\ mem.filter = 0

\* Words about the last call of psample_dispatch: the positions in last.calls
\* of the invocations made for the message numbered i of the batch.
CallsFor(i) == {k \in DOMAIN last.calls : last.calls[k].idx = i}

\* The call returned on its own account: a callback stopped it, or the queue
\* of the non-blocking socket ran empty.
DispatchEnded == last.op = "dispatch" /\ last.ended \in {"stop", "wouldblock"}

\* C3 (as stated): within one psample_dispatch call callbacks are invoked in
\* message order; the first invocation that returns a non-zero value v is the
\* last one and psample_dispatch returns v; if all invocations return zero,
\* psample_dispatch returns zero.
C3_Stated_FirstNonZeroStops ==
    DispatchEnded =>
        LET calls == last.calls IN
        /\ \A j, k \in DOMAIN calls : j < k => calls[j].idx < calls[k].idx
        /\ \A k \in DOMAIN calls :
                calls[k].ret # 0 => k = Len(calls) /\ last.ret = calls[k].ret
        /\ (\A k \in DOMAIN calls : calls[k].ret = 0) => last.ret = 0

\* C4: for every message processed by psample_dispatch: if its command is the
\* sample command and a sample callback is registered, exactly the sample
\* callback is invoked; otherwise, if a configuration callback is registered,
\* exactly the configuration callback is invoked with a view carrying the
\* message's command; otherwise no callback is invoked and processing goes on
\* with the next message.
C4_CallbackByCommand ==
    last.op = "dispatch" =>
        \A i \in 1..Len(last.batch) :
            LET m == last.batch[i] IN
            IF m.cmd = PSAMPLE_CMD_SAMPLE /\ last.msg_cb # NULL
                THEN /\ Cardinality(CallsFor(i)) = 1
                     /\ \A k \in CallsFor(i) :
                            /\ last.calls[k].cb = last.msg_cb
                            /\ last.calls[k].data = Ptr("msg_data")
            ELSE IF last.config_cb # NULL
                THEN /\ Cardinality(CallsFor(i)) = 1
                     /\ \A k \in CallsFor(i) :
                            /\ last.calls[k].cb = last.config_cb
                            /\ last.calls[k].data = Ptr("config_data")
                            /\ last.calls[k].view.cmd = m.cmd
            ELSE /\ CallsFor(i) = {}
                 /\ last.ended = "stop" => i < Len(last.batch)

\* C4, witness: with both callbacks registered a call processed a sample and,
\* after it, a configuration notification, each going to its own callback.
C4_Witness_BothKinds ==
    /\ last.op = "dispatch"
    /\ last.msg_cb # NULL /\ last.config_cb # NULL
    /\ Len(last.batch) = 2 /\ Len(last.calls) = 2
    /\ last.batch[1].cmd = PSAMPLE_CMD_SAMPLE /\ last.calls[1].cb = last.msg_cb
    /\ last.batch[2].cmd = PSAMPLE_CMD_NEW_GROUP /\ last.calls[2].cb = last.config_cb

\* C5 (as stated): psample_dispatch on a valid handle with both callbacks
\* null consumes the queued messages without invoking anything and returns
\* exactly zero.
C5_Stated_NoCallbacksReturnsZero ==
    DispatchEnded /\ last.arg # NULL /\ last.msg_cb = NULL /\ last.config_cb = NULL
        => /\ last.calls = <<>>
           /\ queue = <<>>
           /\ last.ret = 0

\* C6 (as stated): psample_dispatch with block=false on an empty receive queue
\* returns exactly zero, for any registered callbacks; a receive failure with
\* block=true, and any other receive failure, is returned as a negative
\* system error code.
C6_Stated_EmptyQueueReturnsZero ==
    last.op = "dispatch" /\ last.arg # NULL =>
        /\ ~last.block /\ last.batch = <<>> /\ last.errno = EWOULDBLOCK => last.ret = 0
        /\ last.errno # 0 /\ (last.block \/ last.errno # EWOULDBLOCK) =>
                last.ret = -last.errno

\* C9 (as stated): when the decode of a message received by psample_dispatch
\* fails validation, no callback is invoked for that message and the failure
\* is reported through psample_dispatch's return value.
C9_Stated_InvalidMessageAbandoned ==
    last.op = "dispatch" =>
        \A i \in 1..Len(last.batch) :
            InvalidMessage(last.batch[i]) =>
                /\ CallsFor(i) = {}
                /\ last.ret < 0

\* Words about the last call of psample_bind_group: SO_DETACH_FILTER was
\* called and failed (ENOENT with no program attached), SO_ATTACH_FILTER was
\* called and failed.
DetachFailed ==
    /\ last.op = "bind_group" /\ last.arg # NULL
    /\ Deref(last.arg).filter # NULL
    /\ (last.pre.attached = NULL \/ last.detach_fails)

AttachFailed ==
    /\ last.op = "bind_group" /\ last.arg # NULL
    /\ ~DetachFailed
    /\ last.attach_fails

\* C15: psample_bind_group reports its errors as values: -EINVAL and no socket
\* operation on a null handle; the negated system error code when the detach
\* fails, with no program attached by the call and the old buffer still held;
\* the negated system error code when the attach fails; 0 only when the new
\* program was attached.
C15_BindGroupErrors ==
    last.op = "bind_group" =>
        /\ last.arg = NULL =>
                last.ret = -EINVAL /\ last.ops = <<>> /\ handle = NULL
        /\ DetachFailed =>
            /\ last.ret \in {-EPERM, -ENOENT}
            /\ last.ops = <<"detach">>
            /\ sample_sock.filter = last.pre.attached
            /\ handle = last.arg
        /\ AttachFailed => last.ret = -ENOMEM
        /\ last.ret = 0 <=> last.arg # NULL /\ ~DetachFailed /\ ~AttachFailed
        /\ last.ret = 0 =>
            /\ last.ops[Len(last.ops)] = "attach"
            /\ sample_sock.filter = Ptr(PatchedFilter(last.group, littleEndian))
            /\ Deref(handle).filter = sample_sock.filter

\* C15, witness: the detach of an installed program failed and the call
\* returned -EPERM.
C15_Witness_DetachFailed ==
    /\ DetachFailed
    /\ last.pre.attached # NULL
    /\ last.ret = -EPERM

\* C16 (as stated): when a psample_bind_group call that replaces an existing
\* filter fails, at detach or at attach, the handle still holds the old buffer
\* and the old program is still the one installed.
C16_Stated_OldFilterKeptOnFailure ==
    /\ last.op = "bind_group" /\ last.arg # NULL
    /\ last.pre.attached # NULL
    /\ last.ret # 0
    => /\ handle = last.arg
       /\ sample_sock.filter = last.pre.attached

\* C17 (as stated): between psample_bind_group calls the handle holds a filter
\* buffer if and only if a program is attached to the event socket, and a
\* call whose attach succeeds returns 0.
C17_Stated_BufferIffAttached ==
    /\ handle # NULL =>
            (Deref(handle).filter # NULL <=> sample_sock.filter # NULL)
    /\ last.op = "bind_group" /\ last.arg # NULL
            /\ ~last.detach_fails /\ ~last.attach_fails
        => last.ret = 0

\* Words about a group record: the attribute id is carried, and the value of
\* the attribute carried under id.
Carries(m, id) == \E i \in 1..Len(m.attrs) : m.attrs[i].id = id

Carried(m, id) == m.attrs[CHOOSE i \in 1..Len(m.attrs) : m.attrs[i].id = id].val

CompleteRecord(m) ==
    /\ Carries(m, PSAMPLE_ATTR_SAMPLE_GROUP)
    /\ Carries(m, PSAMPLE_ATTR_GROUP_REFCOUNT)
    /\ Carries(m, PSAMPLE_ATTR_GROUP_SEQ)

\* C11: in psample_group_foreach, if the callback first returns a non-zero
\* value v on the k-th record, the callback is invoked exactly k times, once
\* for each of the records 1..k, and psample_group_foreach returns v.
C11_GroupForeachStopsAtNonZero ==
    last.op = "group_foreach" =>
        \A k \in DOMAIN last.calls :
            /\ last.calls[k].idx = k
            /\ last.calls[k].ret # 0 =>
                /\ k = Len(last.calls)
                /\ last.ret = last.calls[k].ret

\* C11, witness: over two complete records the callback returned a non-zero
\* value on the first and was not invoked for the second.
C11_Witness_StoppedAtFirst ==
    /\ last.op = "group_foreach"
    /\ Len(last.dump) = 2
    /\ CompleteRecord(last.dump[2])
    /\ Len(last.calls) = 1
    /\ last.calls[1].ret # 0
    /\ last.ret = last.calls[1].ret

\* C12 (as stated): a record is passed to the callback only when its group
\* number, reference count and sequence number are all present, and then the
\* descriptor's fields equal those attributes' values; if one is absent in a
\* record, the callback is not invoked for that record or a later one and
\* psample_group_foreach returns a negative result.
C12_Stated_IncompleteRecordFails ==
    last.op = "group_foreach" =>
        /\ \A k \in DOMAIN last.calls :
            LET m == last.dump[last.calls[k].idx] IN
            /\ CompleteRecord(m)
            /\ last.calls[k].group =
                    [num |-> Carried(m, PSAMPLE_ATTR_SAMPLE_GROUP),
                     refcount |-> Carried(m, PSAMPLE_ATTR_GROUP_REFCOUNT),
                     seq |-> Carried(m, PSAMPLE_ATTR_GROUP_SEQ)]
        /\ \A i \in 1..Len(last.dump) :
            /\ ~CompleteRecord(last.dump[i])
            /\ last.ended # "send"
            /\ Len(last.calls) = i - 1
            /\ \A k \in DOMAIN last.calls : last.calls[k].ret = 0
            => last.ret < 0

\* C20 (as stated): every callback invocation receives the context value the
\* caller supplied for that callback: msg_data for the sample callback and
\* config_data for the configuration callback in psample_dispatch, and the
\* data passed to psample_group_foreach for the group callback.
C20_Stated_CallbackGetsItsData ==
    /\ last.op = "dispatch" =>
        \A k \in DOMAIN last.calls :
            /\ last.calls[k].cb = Ptr("msg_cb") => last.calls[k].data = Ptr("msg_data")
            /\ last.calls[k].cb = Ptr("config_cb") =>
                    last.calls[k].data = Ptr("config_data")
    /\ last.op = "group_foreach" =>
        \A k \in DOMAIN last.calls : last.calls[k].data = last.data

\* The fields a message carries.
FieldsOf(m) == {m.attrs[i].id : i \in 1..Len(m.attrs)}

\* psample_dispatch with only the sample callback registered processed one
\* sample.
OneSampleDispatched ==
    /\ last.op = "dispatch" /\ last.arg # NULL
    /\ last.msg_cb # NULL /\ last.config_cb = NULL
    /\ Len(last.batch) = 1
    /\ last.batch[1].cmd = PSAMPLE_CMD_SAMPLE

\* C14: when psample_dispatch with only the sample callback registered
\* receives one sample carrying a subset S of the sample attributes, the
\* callback is invoked exactly once, every exist accessor is true exactly for
\* the attributes in S and every value accessor of a present attribute
\* returns the value the message carries.
C14_AccessorsReadTheMessage ==
    OneSampleDispatched =>
        /\ Len(last.calls) = 1
        /\ last.calls[1].cb = last.msg_cb
        /\ LET m == last.batch[1]
               tb == last.calls[1].view.tb
           IN  \A id \in SampleFields :
                /\ psample_msg_exist(tb, id) <=> id \in FieldsOf(m)
                /\ id \in FieldsOf(m) =>
                    psample_msg_get(m.attrs, tb, id, littleEndian) =
                        IF id = PSAMPLE_ATTR_DATA
                            THEN <<4, AttrPayload(SampleAttr(id), littleEndian)>>
                        ELSE SampleAttr(id).val

\* C14, witness: a sample with group 7, rate 100 and ingress interface 2, and
\* no egress interface, was passed to the sample callback.
C14_Witness_GroupRateIif ==
    /\ OneSampleDispatched
    /\ Len(last.calls) = 1
    /\ FieldsOf(last.batch[1]) = {PSAMPLE_ATTR_SAMPLE_GROUP, PSAMPLE_ATTR_SAMPLE_RATE,
                                  PSAMPLE_ATTR_IIFINDEX}
    /\ psample_msg_get(last.batch[1].attrs, last.calls[1].view.tb,
                       PSAMPLE_ATTR_SAMPLE_RATE, littleEndian) = 100
    /\ ~psample_msg_exist(last.calls[1].view.tb, PSAMPLE_ATTR_OIFINDEX)

(***************************************************************************)
(* The capture bridge.                                                     *)
(***************************************************************************)
PcapResources == <<"pcap_handle", "pcap_dumper", "pcap_buf">>

Reverse(q) == [i \in 1..Len(q) |-> q[Len(q) + 1 - i]]

\* The resources a failure at the step fail finds acquired.
AcquiredBefore(fail) ==
    IF fail = "open_dead" THEN <<>>
    ELSE IF fail = "dump_open" THEN SubSeq(PcapResources, 1, 1)
    ELSE IF fail = "calloc" THEN SubSeq(PcapResources, 1, 2)
    ELSE PcapResources

PcapHeld(res) == pcap[res] \in {"open", "held"}

PcapGone(res) == pcap[res] \in {"none", "closed", "freed"}

\* C19: psample_pcap_init acquires the capture handle, the dump sink and the
\* frame buffer in this order and then runs the family exchange.  When a
\* step fails it returns -1, having released what the earlier steps acquired,
\* in reverse order and each once, and holding nothing; it returns 0 only when
\* no step failed, with all three held and nothing released.
\* psample_pcap_fini releases the buffer, the sink and the capture handle, in
\* this order, and nothing is held after it.
C19_PcapInitUnwinds ==
    /\ last.op = "pcap_init" =>
        /\ last.ret \in {0, -1}
        /\ last.ret = 0 <=> last.fail = "none"
        /\ last.acquired = AcquiredBefore(last.fail)
        /\ last.ret = -1 =>
            /\ last.released = Reverse(last.acquired)
            /\ \A i \in 1..3 : PcapGone(PcapResources[i])
        /\ last.ret = 0 =>
            /\ last.released = <<>>
            /\ \A i \in 1..3 : PcapHeld(PcapResources[i])
    /\ last.op = "pcap_fini" =>
        /\ last.released = Reverse(PcapResources)
        /\ \A i \in 1..3 : PcapGone(PcapResources[i])

\* C19 happens: the frame buffer could not be allocated, with the capture
\* handle and the sink open.
C19_Witness_BufferAllocFailed ==
    /\ last.op = "pcap_init"
    /\ last.fail = "calloc"
    /\ last.ret = -1
    /\ last.released = <<"pcap_dumper", "pcap_handle">>

\* The frame the claim describes for a datagram of L bytes.
StatedFrame(L, snaplen) ==
    LET n == IF L <= snaplen - SLL_HDRLEN THEN L ELSE snaplen - SLL_HDRLEN IN
    [caplen |-> SLL_HDRLEN + n, len |-> SLL_HDRLEN + n,
     bytes |-> <<Run("sll", 0, SLL_HDRLEN), Run("datagram", 0, n)>>]

WroteFrames == last.op \in {"pcap_init", "write_pcap_dispatch"} /\ last.frames # <<>>

\* C13 as stated: every datagram of L bytes the bridge receives is written as
\* the frame of the 16 header bytes and the L bytes of the datagram, 16 + L
\* bytes long (L <= snaplen - 16), or of the header and the first
\* snaplen - 16 bytes of the datagram, snaplen bytes long (L > snaplen - 16),
\* and nothing is written behind the snaplen bytes of the frame buffer.
C13_Stated_FrameIsHeaderAndDatagram ==
    WroteFrames =>
        /\ last.overflow = 0
        /\ Len(last.frames) = Len(last.lens)
        /\ \A i \in 1..Len(last.frames) :
                last.frames[i] = StatedFrame(last.lens[i], PCAP_SNAPLEN)

\* The last call reached an allocation that failed.
OpenAllocFailed == last.op = "open" /\ last.fail = "calloc"

PcapAllocFailed == last.op = "pcap_init" /\ last.fail = "calloc"

BindAllocFailed ==
    /\ last.op = "bind_group_malloc_null"
    /\ \E i \in 1..Len(last.ops) : last.ops[i] = "malloc"

\* C18 as stated: a call whose allocation fails returns failure, does not
\* write through the null pointer, and leaves no partial state: psample_open
\* returns NULL with nothing allocated and no socket open, psample_pcap_init
\* returns -1 with nothing held, and psample_bind_group returns a negative
\* value with the handle's filter buffer and the installed program as before
\* the call.
C18_Stated_AllocFailureFailsCleanly ==
    /\ OpenAllocFailed =>
        /\ last.ret = NULL
        /\ mem = [handle |-> 0, filter |-> 0]
        /\ sample_sock = NoSock /\ control_sock = NoSock
    /\ PcapAllocFailed =>
        /\ last.ret = -1
        /\ \A i \in 1..3 : PcapGone(PcapResources[i])
    /\ BindAllocFailed =>
        /\ last.signal = "none"
        /\ last.ret < 0
        /\ handle = last.arg
        /\ sample_sock.filter = last.pre.attached

(***************************************************************************)
(* The return value of the group enumeration.                              *)
(***************************************************************************)
\* The send and the receive loop succeeded and no invocation of the callback
\* returned a non-zero value.
GroupForeachRanClean ==
    /\ last.op = "group_foreach"
    /\ last.ended = "done"
    /\ \A k \in DOMAIN last.calls : last.calls[k].ret = 0

\* C21 as stated: when the send and the receive loop succeed and no callback
\* invocation returned non-zero, psample_group_foreach returns 0, also when
\* the dump holds no group record and the callback is never invoked.
C21_Stated_CleanEnumerationReturnsZero ==
    GroupForeachRanClean => last.ret = 0
====
